---- MODULE Spec2Model ----
(***************************************************************************)
(* Model of the console logger in C++/logger: the lazily constructed       *)
(* LogManager singleton (singleton.h, log_categories.h), the Debug_Log     *)
(* overload family (debug_logger_component.h) and the colour table         *)
(* (project_definitions.h).                                                *)
(*                                                                         *)
(* Three specifications share the variables:                               *)
(*   Spec        one thread using the registry, the six Debug_Log          *)
(*               overloads and DestroyInstance, in a build with or without *)
(*               DEBUG_MODE;                                               *)
(*   SpecThreads several threads inside GetInstance / GetRef, one source   *)
(*               line per step;                                            *)
(*   SpecColor   Color_To_Ansi applied to every value of its 8-bit         *)
(*               parameter.                                                *)
(*                                                                         *)
(* Text is modelled by strings; the escape character is spelled \033 as in *)
(* the source literals.  cout holds the text the latest operation appended *)
(* to standard output (the stream is append-only and never read back).     *)
(***************************************************************************)
EXTENDS Integers, Sequences, FiniteSets, TLC

VARIABLES
    DEBUG_MODE,   \* whether the build defines DEBUG_MODE
    m_instance,   \* Singleton<LogManager>::m_instance: NULL or an object id
    m_lock,       \* Singleton<LogManager>::m_lock: 0 (free) or the holding thread
    heap,         \* the LogManager objects allocated by new T, by id
    mainPc,       \* Spec: "run", "dtor" (inside delete m_instance), "crashed", "terminated"
    dtorDepth,    \* Spec: nesting depth of ~LogManager frames on the stack
    cout,         \* text appended to standard output by the latest operation
    last,         \* the latest operation, its arguments and its result
    lastDisabled, \* history: the categories whose latest Enable/DisableCategory call was DisableCategory
    lockCount,    \* history: how many times m_lock was acquired
    pc,           \* SpecThreads: each thread's position inside GetInstance/GetRef
    kind,         \* SpecThreads: which of GetInstance/GetRef the thread is in
    seen,         \* SpecThreads: the thread has observed the store to m_instance
    ret,          \* SpecThreads: the pointers each thread's calls returned, in order
    late          \* SpecThreads, history: the call in progress started with the instance constructed

vars == <<DEBUG_MODE, m_instance, m_lock, heap, mainPc, dtorDepth, cout, last,
          lastDisabled, lockCount, pc, kind, seen, ret, late>>

----------------------------------------------------------------------------
(* Bounds of the model *)

\* category arguments range over 0 .. MaxCategoryValue: the six categories,
\* the AutoCount sentinel and values cast from outside the enumeration
MaxCategoryValue == 6
\* ~LogManager frames the stack holds before it overflows
MaxStack == 3
\* threads of SpecThreads
NThreads == 2
\* GetInstance/GetRef calls per thread in SpecThreads
MaxGets == 2

----------------------------------------------------------------------------
(* project_definitions.h *)

UNIX_COLOR_END_TAG == "\\033[m"

\* enum class EPrintColor : unsigned char
Red == 0
Green == 1
Blue == 2
White == 3
Black == 4
Magenta == 5
Cyan == 6
Yellow == 7
Gray == 8
LightRed == 9
LightGreen == 10
LightBlue == 11
LightWhite == 12
LightMagenta == 13
LightCyan == 14
LightYellow == 15
\* the largest value of the underlying type unsigned char
UCharMax == 255
EPrintColor == 0 .. UCharMax

\* enum class ELogCategory : int
Default == 0
Error == 1
Core == 2
Editor == 3
Component == 4
Threads == 5
AutoCount == 6
RealCategories == {Default, Error, Core, Editor, Component, Threads}
ELogCategory == 0 .. MaxCategoryValue

\* enum class ELogCategoryState : int
Enabled == 0
Disabled == 1

\* mutant: LightYellow given a code of its own and the fallback left uncoloured
Color_To_Ansi_Mut(color) ==
    CASE color = Red          -> "\\033[1;31m"
      [] color = Green        -> "\\033[1;32m"
      [] color = Blue         -> "\\033[1;34m"
      [] color = White        -> "\\033[1;37m"
      [] color = Black        -> "\\033[1;30m"
      [] color = Magenta      -> "\\033[1;35m"
      [] color = Cyan         -> "\\033[1;36m"
      [] color = Yellow       -> "\\033[1;33m"
      [] color = Gray         -> "\\033[1;90m"
      [] color = LightRed     -> "\\033[1;91m"
      [] color = LightGreen   -> "\\033[1;92m"
      [] color = LightBlue    -> "\\033[1;94m"
      [] color = LightWhite   -> "\\033[1;97m"
      [] color = LightMagenta -> "\\033[1;95m"
      [] color = LightCyan    -> "\\033[1;96m"
      [] color = LightYellow  -> "\\033[1;93m"
      [] OTHER                -> "\\033[m"

Color_To_Ansi(color) ==
    CASE color = Red          -> "\\033[1;31m"
      [] color = Green        -> "\\033[1;32m"
      [] color = Blue         -> "\\033[1;34m"
      [] color = White        -> "\\033[1;37m"
      [] color = Black        -> "\\033[1;30m"
      [] color = Magenta      -> "\\033[1;35m"
      [] color = Cyan         -> "\\033[1;36m"
      [] color = Yellow       -> "\\033[1;33m"
      [] color = Gray         -> "\\033[1;90m"
      [] color = LightRed     -> "\\033[1;91m"
      [] color = LightGreen   -> "\\033[1;92m"
      [] color = LightBlue    -> "\\033[1;94m"
      [] color = LightWhite   -> "\\033[1;97m"
      [] color = LightMagenta -> "\\033[1;95m"
      [] color = LightCyan    -> "\\033[1;96m"
      [] color = LightYellow  -> "\\033[1;94m"
      [] OTHER                -> "\\033[1;37m"

----------------------------------------------------------------------------
(* Text: what operator<< writes for each kind of argument *)

StrArg(s) == [k |-> "str", s |-> s, n |-> 0, b |-> FALSE]
IntArg(n) == [k |-> "int", s |-> "", n |-> n, b |-> FALSE]
BoolArg(b) == [k |-> "bool", s |-> "", n |-> 0, b |-> b]

DigitChar(d) == <<"0", "1", "2", "3", "4", "5", "6", "7", "8", "9">>[d + 1]

RECURSIVE NatText(_)
NatText(n) == IF n < 10 THEN DigitChar(n) ELSE NatText(n \div 10) \o DigitChar(n % 10)

\* operator<<(int): decimal digits, a leading '-' for a negative value
IntText(n) == IF n < 0 THEN "-" \o NatText(0 - n) ELSE NatText(n)

\* operator<< on std::cout in its default state: a string as it is, an int in
\* decimal, a bool as 1 or 0 (boolalpha is off)
ArgText(a) ==
    CASE a.k = "str"  -> a.s
      [] a.k = "int"  -> IntText(a.n)
      [] a.k = "bool" -> IF a.b THEN "1" ELSE "0"

\* the fold expression ([&]{ std::cout << args; }(), ...): each argument in call
\* order, nothing between them
RECURSIVE ArgsText(_)
ArgsText(args) == IF args = <<>> THEN "" ELSE ArgText(Head(args)) \o ArgsText(Tail(args))

----------------------------------------------------------------------------
(* Inputs *)

NULL == 0
Thread == 1 .. NThreads

ArgLists ==
    { <<>>,
      <<StrArg("Loading next level"), IntArg(69), BoolArg(TRUE), IntArg(0 - 420)>> }

\* colours passed to Debug_Log: an enumerated one and a value outside the
\* enumeration
LogColors == {Red, UCharMax}

\* what std::ctime returns for the time of the call
Timestamps == {"Thu Nov  5 03:08:00 2026\n"}

\* the clock is read, and std::ctime called, only inside if(bShowTime)
ClockRead(bShowTime) == IF bShowTime THEN Timestamps ELSE {""}

----------------------------------------------------------------------------
(* log_categories.h: class LogManager *)

\* std::map<ELogCategory, ELogCategoryState>::operator[] followed by an
\* assignment: the key is inserted when it is missing
MapAssign(m, key, value) ==
    [x \in DOMAIN m \cup {key} |-> IF x = key THEN value ELSE m[x]]

\* mutant: the loop runs while i <= AutoCount and inserts the sentinel
LogManagerCtor_Mut == [i \in 0 .. AutoCount |-> Enabled]

\* LogManager::LogManager(): for i in 0 .. AutoCount-1, states[i] = Enabled
LogManagerCtor == [i \in 0 .. (AutoCount - 1) |-> Enabled]

EnableCategory(states, category) == MapAssign(states, category, Enabled)

\* mutant: DisableCategory copied from EnableCategory, the state not changed
DisableCategory_Mut(states, category) == MapAssign(states, category, Enabled)

DisableCategory(states, category) == MapAssign(states, category, Disabled)

\* mutant: IsCategoryEnabled written as "not AutoCount"
IsCategoryEnabled_Mut(states, category) ==
    IF category \notin DOMAIN states THEN "out_of_range"
    ELSE IF states[category] # AutoCount THEN "true" ELSE "false"

\* mutant: IsCategoryDisabled compares with the wrong state
IsCategoryDisabled_Mut(states, category) ==
    IF category \notin DOMAIN states THEN "out_of_range"
    ELSE IF states[category] = Enabled THEN "true" ELSE "false"

\* logCategoryStates.at(category) == Enabled; at() throws std::out_of_range
\* for a key that has no entry
IsCategoryEnabled(states, category) ==
    IF category \notin DOMAIN states THEN "out_of_range"
    ELSE IF states[category] = Enabled THEN "true" ELSE "false"

IsCategoryDisabled(states, category) ==
    IF category \notin DOMAIN states THEN "out_of_range"
    ELSE IF states[category] = Disabled THEN "true" ELSE "false"

----------------------------------------------------------------------------
(* singleton.h: the heap of LogManager objects and the sequential GetInstance *)

\* the id new T returns: no delete of this program ever reaches operator
\* delete (see DestroyInstance), so ids are never reused
NewObject(h) == Cardinality(DOMAIN h) + 1

\* new T: a fresh object built by LogManager::LogManager()
Allocate(h) ==
    [o \in DOMAIN h \cup {NewObject(h)} |->
        IF o \in DOMAIN h THEN h[o]
        ELSE [logCategoryStates |-> LogManagerCtor, dtorRuns |-> 0]]

\* GetInstance / GetRef run by one thread with no other thread about: the
\* fast-path check, and on a null pointer lock, re-check, new T, unlock
GetInstanceSeq ==
    IF m_instance = NULL
    THEN [inst |-> NewObject(heap), heap |-> Allocate(heap), ctor |-> TRUE,
          locks |-> lockCount + 1]
    ELSE [inst |-> m_instance, heap |-> heap, ctor |-> FALSE, locks |-> lockCount]

States == heap[m_instance].logCategoryStates

\* the record of an operation: op its name, variant the Debug_Log overload
\* (1..6, 0 otherwise), res its result, ctor whether it constructed the
\* LogManager, get whether it called GetInstance
Op(op, variant, cat, color, time, ts, args, res, ctor, get) ==
    [op |-> op, variant |-> variant, cat |-> cat, color |-> color, time |-> time,
     ts |-> ts, args |-> args, res |-> res, ctor |-> ctor, get |-> get]

NoOp == Op("none", 0, Default, Red, FALSE, "", <<>>, "", FALSE, FALSE)

ThreadVars == <<pc, kind, seen, ret, late>>

----------------------------------------------------------------------------
(* debug_logger_component.h: the text each overload writes *)

\* mutant: the bodies are compiled in every build
DebugBuild_Mut == TRUE

\* #ifdef DEBUG_MODE around every body
DebugBuild == DEBUG_MODE

\* std::cout << ">>> "; the fold over args; std::cout << std::endl
PlainLine(args) == ">>> " \o ArgsText(args) \o "\n"

\* mutant: the colour is never reset
ColorLine_Mut(color, args) ==
    ">>> " \o Color_To_Ansi(color) \o ArgsText(args) \o "\n"

\* std::cout << ">>> " << color_code; the fold; << UNIX_COLOR_END_TAG << std::endl
ColorLine(color, args) ==
    ">>> " \o Color_To_Ansi(color) \o ArgsText(args) \o UNIX_COLOR_END_TAG \o "\n"

\* if(bShowTime) std::cout << std::ctime(&time_struct); then the coloured line
TimedColorLine(color, bShowTime, ts, args) ==
    (IF bShowTime THEN ts ELSE "") \o ColorLine(color, args)

\* What the six bodies share: nothing without DEBUG_MODE; otherwise
\* GetInstance, IsCategoryDisabled(category) and an early return when it is
\* true, else the text.  An exception leaving at() inside the noexcept
\* function calls std::terminate.
DebugLogBody(variant, category, color, bShowTime, ts, args, text) ==
    /\ mainPc = "run"
    /\ IF ~DebugBuild
       THEN /\ cout' = ""
            /\ last' = Op("Debug_Log", variant, category, color, bShowTime, ts, args,
                          "", FALSE, FALSE)
            /\ UNCHANGED <<m_instance, heap, lockCount, mainPc>>
       ELSE LET g == GetInstanceSeq
                disabled == IsCategoryDisabled(g.heap[g.inst].logCategoryStates, category)
            IN /\ m_instance' = g.inst
               /\ heap' = g.heap
               /\ lockCount' = g.locks
               /\ mainPc' = IF disabled = "out_of_range" THEN "terminated" ELSE "run"
               /\ cout' = IF disabled = "false" THEN text ELSE ""
               /\ last' = Op("Debug_Log", variant, category, color, bShowTime, ts, args,
                             disabled, g.ctor, TRUE)
    /\ UNCHANGED <<DEBUG_MODE, m_lock, dtorDepth, lastDisabled, ThreadVars>>

\* Debug_Log(Args&&...)
Debug_Log_Args(args) ==
    DebugLogBody(1, Default, Red, FALSE, "", args, PlainLine(args))

\* Debug_Log(ELogCategory, Args&&...)
Debug_Log_Cat(category, args) ==
    DebugLogBody(2, category, Red, FALSE, "", args, PlainLine(args))

\* Debug_Log(const EPrintColor, Args&&...)
Debug_Log_Color(color, args) ==
    DebugLogBody(3, Default, color, FALSE, "", args, ColorLine(color, args))

\* Debug_Log(const ELogCategory, const EPrintColor, Args&&...)
Debug_Log_CatColor(category, color, args) ==
    DebugLogBody(4, category, color, FALSE, "", args, ColorLine(color, args))

\* Debug_Log(const EPrintColor, const bool, Args&&...)
Debug_Log_ColorTime(color, bShowTime, ts, args) ==
    DebugLogBody(5, Default, color, bShowTime, ts, args,
                 TimedColorLine(color, bShowTime, ts, args))

\* Debug_Log(const ELogCategory, const EPrintColor, const bool, Args&&...)
Debug_Log_CatColorTime(category, color, bShowTime, ts, args) ==
    DebugLogBody(6, category, color, bShowTime, ts, args,
                 TimedColorLine(color, bShowTime, ts, args))

----------------------------------------------------------------------------
(* Spec: the operations as one thread calls them *)

\* LogManager::GetInstance() (or GetRef()) called directly
Call_GetInstance ==
    /\ mainPc = "run"
    /\ LET g == GetInstanceSeq
       IN /\ m_instance' = g.inst
          /\ heap' = g.heap
          /\ lockCount' = g.locks
          /\ last' = Op("GetInstance", 0, Default, Red, FALSE, "", <<>>, "", g.ctor, TRUE)
    /\ cout' = ""
    /\ UNCHANGED <<DEBUG_MODE, m_lock, mainPc, dtorDepth, lastDisabled, ThreadVars>>

\* instance->EnableCategory(category), on the pointer GetInstance returned
Call_EnableCategory(category) ==
    /\ mainPc = "run"
    /\ m_instance # NULL
    /\ heap' = [heap EXCEPT ![m_instance].logCategoryStates = EnableCategory(@, category)]
    /\ lastDisabled' = lastDisabled \ {category}
    /\ last' = Op("EnableCategory", 0, category, Red, FALSE, "", <<>>, "", FALSE, FALSE)
    /\ cout' = ""
    /\ UNCHANGED <<DEBUG_MODE, m_instance, m_lock, mainPc, dtorDepth, lockCount, ThreadVars>>

\* instance->DisableCategory(category)
Call_DisableCategory(category) ==
    /\ mainPc = "run"
    /\ m_instance # NULL
    /\ heap' = [heap EXCEPT ![m_instance].logCategoryStates = DisableCategory(@, category)]
    /\ lastDisabled' = lastDisabled \cup {category}
    /\ last' = Op("DisableCategory", 0, category, Red, FALSE, "", <<>>, "", FALSE, FALSE)
    /\ cout' = ""
    /\ UNCHANGED <<DEBUG_MODE, m_instance, m_lock, mainPc, dtorDepth, lockCount, ThreadVars>>

\* instance->IsCategoryEnabled(category): a const method; its result, or the
\* exception it throws, goes to the caller
Call_IsCategoryEnabled(category) ==
    /\ mainPc = "run"
    /\ m_instance # NULL
    /\ last' = Op("IsCategoryEnabled", 0, category, Red, FALSE, "", <<>>,
                  IsCategoryEnabled(States, category), FALSE, FALSE)
    /\ cout' = ""
    /\ UNCHANGED <<DEBUG_MODE, m_instance, m_lock, heap, mainPc, dtorDepth, lastDisabled,
                   lockCount, ThreadVars>>

\* instance->IsCategoryDisabled(category)
Call_IsCategoryDisabled(category) ==
    /\ mainPc = "run"
    /\ m_instance # NULL
    /\ last' = Op("IsCategoryDisabled", 0, category, Red, FALSE, "", <<>>,
                  IsCategoryDisabled(States, category), FALSE, FALSE)
    /\ cout' = ""
    /\ UNCHANGED <<DEBUG_MODE, m_instance, m_lock, heap, mainPc, dtorDepth, lastDisabled,
                   lockCount, ThreadVars>>

\* LogManager::~LogManager() entered on object o: the member map is destroyed,
\* then the base ~Singleton() body runs (Singleton_Dtor)
EnterDtor(h, o) ==
    [h EXCEPT ![o] = [logCategoryStates |-> <<>>, dtorRuns |-> @.dtorRuns + 1]]

\* Singleton::DestroyInstance(): nothing on a null pointer; otherwise lock and
\* delete m_instance, which enters ~LogManager() on the object while
\* m_instance still points to it
DestroyInstance ==
    /\ mainPc = "run"
    /\ IF m_instance = NULL
       THEN /\ last' = Op("DestroyInstance", 0, Default, Red, FALSE, "", <<>>, "noop",
                          FALSE, FALSE)
            /\ UNCHANGED <<m_lock, lockCount, heap, mainPc, dtorDepth>>
       ELSE /\ m_lock' = 1
            /\ lockCount' = lockCount + 1
            /\ heap' = EnterDtor(heap, m_instance)
            /\ mainPc' = "dtor"
            /\ dtorDepth' = 1
            /\ last' = Op("DestroyInstance", 0, Default, Red, FALSE, "", <<>>, "delete",
                          FALSE, FALSE)
    /\ cout' = ""
    /\ UNCHANGED <<DEBUG_MODE, m_instance, lastDisabled, ThreadVars>>

\* Singleton::~Singleton() { delete m_instance; m_instance = nullptr; } run as
\* the base destructor of the object being deleted.  m_instance is the static
\* pointer, still the object itself, so delete m_instance enters
\* ~LogManager() on it again, one frame deeper.  (Had the pointer been null,
\* the frames would unwind and DestroyInstance would store nullptr, unlock
\* and return.)
Singleton_Dtor ==
    /\ mainPc = "dtor"
    /\ dtorDepth < MaxStack
    /\ IF m_instance # NULL
       THEN /\ heap' = EnterDtor(heap, m_instance)
            /\ dtorDepth' = dtorDepth + 1
            /\ UNCHANGED <<m_instance, m_lock, mainPc>>
       ELSE /\ dtorDepth' = 0
            /\ m_instance' = NULL
            /\ m_lock' = 0
            /\ mainPc' = "run"
            /\ UNCHANGED heap
    /\ UNCHANGED <<DEBUG_MODE, cout, last, lastDisabled, lockCount, ThreadVars>>

\* Destroying the object a second time is undefined behaviour: the process
\* dies there (the allocator aborts on the double free of the map's nodes, or
\* a freed node is dereferenced), or the recursion goes on until the stack
\* is exhausted.  No outcome returns to DestroyInstance.
Dtor_Crash ==
    /\ mainPc = "dtor"
    /\ dtorDepth >= 2
    /\ mainPc' = "crashed"
    /\ UNCHANGED <<DEBUG_MODE, m_instance, m_lock, heap, dtorDepth, cout, last,
                   lastDisabled, lockCount, ThreadVars>>

Init ==
    /\ DEBUG_MODE \in BOOLEAN
    /\ m_instance = NULL
    /\ m_lock = 0
    /\ heap = <<>>
    /\ mainPc = "run"
    /\ dtorDepth = 0
    /\ cout = ""
    /\ last = NoOp
    /\ lastDisabled = {}
    /\ lockCount = 0
    /\ pc = [t \in Thread |-> "idle"]
    /\ kind = [t \in Thread |-> "GetInstance"]
    /\ seen = [t \in Thread |-> FALSE]
    /\ ret = [t \in Thread |-> <<>>]
    /\ late = [t \in Thread |-> FALSE]

Next ==
    \/ Call_GetInstance
    \/ \E c \in ELogCategory : Call_EnableCategory(c)
    \/ \E c \in ELogCategory : Call_DisableCategory(c)
    \/ \E c \in ELogCategory : Call_IsCategoryEnabled(c)
    \/ \E c \in ELogCategory : Call_IsCategoryDisabled(c)
    \/ \E a \in ArgLists : Debug_Log_Args(a)
    \/ \E c \in ELogCategory, a \in ArgLists : Debug_Log_Cat(c, a)
    \/ \E k \in LogColors, a \in ArgLists : Debug_Log_Color(k, a)
    \/ \E c \in ELogCategory, k \in LogColors, a \in ArgLists : Debug_Log_CatColor(c, k, a)
    \/ \E k \in LogColors, b \in BOOLEAN, a \in ArgLists :
          \E ts \in ClockRead(b) : Debug_Log_ColorTime(k, b, ts, a)
    \/ \E c \in ELogCategory, k \in LogColors, b \in BOOLEAN, a \in ArgLists :
          \E ts \in ClockRead(b) : Debug_Log_CatColorTime(c, k, b, ts, a)
    \/ DestroyInstance
    \/ Singleton_Dtor
    \/ Dtor_Crash

Spec == Init /\ [][Next]_vars

----------------------------------------------------------------------------
(* SpecThreads: GetInstance / GetRef, one source line per step *)

MainVars == <<DEBUG_MODE, mainPc, dtorDepth, cout, last, lastDisabled>>

\* m_instance is a plain pointer read outside the lock while another thread
\* may store to it under the lock: a data race.  The load yields the current
\* value, or still the initial nullptr while the thread has not yet observed
\* the store (it has neither read it nor acquired m_lock after it).
RacyRead(t) == {m_instance} \cup (IF seen[t] THEN {} ELSE {NULL})

\* a thread enters GetInstance() or GetRef()
T_Call(t, k) ==
    /\ pc[t] = "idle"
    /\ Len(ret[t]) < MaxGets
    /\ pc' = [pc EXCEPT ![t] = "check1"]
    /\ kind' = [kind EXCEPT ![t] = k]
    /\ late' = [late EXCEPT ![t] = (m_instance # NULL)]
    /\ UNCHANGED <<m_instance, m_lock, heap, lockCount, seen, ret, MainVars>>

\* if(!m_instance), outside the lock
T_Check1(t) ==
    /\ pc[t] = "check1"
    /\ \E v \in RacyRead(t) :
          /\ pc' = [pc EXCEPT ![t] = IF v = NULL THEN "lock" ELSE "return"]
          /\ seen' = [seen EXCEPT ![t] = (v # NULL)]
    /\ UNCHANGED <<m_instance, m_lock, heap, lockCount, kind, ret, late, MainVars>>

\* const std::lock_guard<std::mutex> lock(m_lock): blocks while the mutex is
\* held; acquiring it makes every store made under it before visible
T_Lock(t) ==
    /\ pc[t] = "lock"
    /\ m_lock = 0
    /\ m_lock' = t
    /\ lockCount' = lockCount + 1
    /\ seen' = [seen EXCEPT ![t] = (m_instance # NULL)]
    /\ pc' = [pc EXCEPT ![t] = "check2"]
    /\ UNCHANGED <<m_instance, heap, kind, ret, late, MainVars>>

\* mutant: no re-check under the lock
T_Check2_Mut(t) ==
    /\ pc[t] = "check2"
    /\ pc' = [pc EXCEPT ![t] = "new"]
    /\ UNCHANGED <<m_instance, m_lock, heap, lockCount, kind, seen, ret, late, MainVars>>

\* if(!m_instance), under the lock
T_Check2(t) ==
    /\ pc[t] = "check2"
    /\ pc' = [pc EXCEPT ![t] = IF m_instance = NULL THEN "new" ELSE "unlock"]
    /\ UNCHANGED <<m_instance, m_lock, heap, lockCount, kind, seen, ret, late, MainVars>>

\* m_instance = new T
T_New(t) ==
    /\ pc[t] = "new"
    /\ heap' = Allocate(heap)
    /\ m_instance' = NewObject(heap)
    /\ seen' = [seen EXCEPT ![t] = TRUE]
    /\ pc' = [pc EXCEPT ![t] = "unlock"]
    /\ UNCHANGED <<m_lock, lockCount, kind, ret, late, MainVars>>

\* the lock_guard leaves scope
T_Unlock(t) ==
    /\ pc[t] = "unlock"
    /\ m_lock' = 0
    /\ pc' = [pc EXCEPT ![t] = "return"]
    /\ UNCHANGED <<m_instance, heap, lockCount, kind, seen, ret, late, MainVars>>

\* return m_instance (GetInstance) or return *m_instance (GetRef): the thread
\* has observed the store by now
T_Return(t) ==
    /\ pc[t] = "return"
    /\ ret' = [ret EXCEPT ![t] = Append(@, m_instance)]
    /\ pc' = [pc EXCEPT ![t] = "idle"]
    /\ UNCHANGED <<m_instance, m_lock, heap, lockCount, kind, seen, late, MainVars>>

InitThreads == Init /\ DEBUG_MODE

NextThreads ==
    \/ \E t \in Thread, k \in {"GetInstance", "GetRef"} : T_Call(t, k)
    \/ \E t \in Thread : T_Check1(t)
    \/ \E t \in Thread : T_Lock(t)
    \/ \E t \in Thread : T_Check2(t)
    \/ \E t \in Thread : T_New(t)
    \/ \E t \in Thread : T_Unlock(t)
    \/ \E t \in Thread : T_Return(t)

SpecThreads == InitThreads /\ [][NextThreads]_vars

----------------------------------------------------------------------------
(* SpecColor: Color_To_Ansi on every value of its parameter *)

Call_Color_To_Ansi(color) ==
    /\ last' = Op("Color_To_Ansi", 0, Default, color, FALSE, "", <<>>,
                  Color_To_Ansi(color), FALSE, FALSE)
    /\ UNCHANGED <<DEBUG_MODE, m_instance, m_lock, heap, mainPc, dtorDepth, cout,
                   lastDisabled, lockCount, ThreadVars>>

NextColor == \E color \in EPrintColor : Call_Color_To_Ansi(color)

SpecColor == InitThreads /\ [][NextColor]_vars

----------------------------------------------------------------------------
(* Properties *)

IsLog == last.op = "Debug_Log"
\* the category a Debug_Log overload checks: its argument, or Default when
\* the overload takes none (overloads 2, 4 and 6 take a category, 3 to 6 a
\* colour, 5 and 6 bShowTime)
EffectiveCategory == IF last.variant \in {2, 4, 6} THEN last.cat ELSE Default
TakesColor == last.variant \in {3, 4, 5, 6}
TakesTime == last.variant \in {5, 6}
HasState(c, st) == m_instance # NULL /\ c \in DOMAIN States /\ States[c] = st

\* C1: a Debug_Log call of any overload whose effective category is Disabled
\* in the LogManager writes nothing to standard output, after any sequence of
\* EnableCategory/DisableCategory calls.
C1_DisabledWritesNothing ==
    (IsLog /\ HasState(EffectiveCategory, Disabled)) => cout = ""

C1_Witness ==
    /\ IsLog /\ DEBUG_MODE /\ last.variant = 6 /\ last.time /\ last.cat = Error
    /\ HasState(Error, Disabled) /\ HasState(Default, Enabled)
    /\ last.args # <<>> /\ cout = ""

\* C2: when several threads call GetInstance/GetRef concurrently with no
\* instance yet, the constructor runs exactly once and every caller returns
\* that one instance; no second instance is ever allocated.
C2_OneInstance ==
    /\ Cardinality(DOMAIN heap) <= 1
    /\ \A t \in Thread : \A i \in 1 .. Len(ret[t]) :
          /\ ret[t][i] # NULL
          /\ ret[t][i] = m_instance
          /\ Cardinality(DOMAIN heap) = 1
          /\ \A u \in Thread : \A j \in 1 .. Len(ret[u]) : ret[u][j] = ret[t][i]

\* every thread found the pointer null, went for the lock, and has returned
C2_Witness ==
    /\ lockCount = NThreads
    /\ \A t \in Thread : Len(ret[t]) >= 1 /\ Head(ret[t]) = m_instance
    /\ \E t \in Thread : kind[t] = "GetRef"

\* C3: DestroyInstance called while an instance exists returns to its caller
\* having destroyed the instance exactly once and left the pointer null (so
\* the process never dies in it and no object is destroyed twice); called
\* with no instance it does nothing.
C3_DestroyCompletes ==
    /\ mainPc # "crashed"
    /\ \A o \in DOMAIN heap : heap[o].dtorRuns <= 1
    /\ (last.op = "DestroyInstance" /\ mainPc = "run") => m_instance = NULL

\* C4: right after the LogManager is constructed the map holds exactly the
\* six real categories (no AutoCount), each reported enabled and not disabled.
C4_AllEnabledAfterConstruction ==
    last.ctor =>
        /\ m_instance # NULL
        /\ DOMAIN States = {Default, Error, Core, Editor, Component, Threads}
        /\ AutoCount \notin DOMAIN States
        /\ \A c \in DOMAIN States :
              /\ IsCategoryEnabled(States, c) = "true"
              /\ IsCategoryDisabled(States, c) = "false"

C4_Witness == last.ctor /\ last.op = "GetInstance" /\ m_instance # NULL

Toggled == last'.op \in {"EnableCategory", "DisableCategory"}

\* C5: after any sequence of EnableCategory/DisableCategory calls, a real
\* category is reported disabled iff the latest call naming it was
\* DisableCategory, and enabled iff it was EnableCategory or there was none;
\* DisableCategory(c) is followed by IsCategoryDisabled(c), EnableCategory(c)
\* by IsCategoryEnabled(c), a repeated call changes nothing, and a call on c
\* leaves every other category's state alone.
C5_LatestCallDecides ==
    /\ [](m_instance # NULL /\ mainPc # "dtor" /\ mainPc # "crashed" =>
            \A c \in RealCategories :
                /\ IsCategoryDisabled(States, c) = "true" <=> c \in lastDisabled
                /\ IsCategoryEnabled(States, c) = "true" <=> c \notin lastDisabled)
    /\ [][Toggled =>
            /\ last'.op = "DisableCategory" =>
                  IsCategoryDisabled(States', last'.cat) = "true"
            /\ last'.op = "EnableCategory" =>
                  IsCategoryEnabled(States', last'.cat) = "true"
            /\ (last.op = last'.op /\ last.cat = last'.cat) => heap' = heap
            /\ \A c \in DOMAIN States \ {last'.cat} :
                  c \in DOMAIN States' /\ States'[c] = States[c]]_vars

C5_Witness ==
    /\ last.op = "EnableCategory" /\ last.cat = Core
    /\ lastDisabled = {Error, Threads}
    /\ HasState(Core, Enabled) /\ HasState(Error, Disabled) /\ HasState(Threads, Disabled)

\* C6: in every reachable registry state, for every category that has an
\* entry exactly one of IsCategoryEnabled and IsCategoryDisabled is true, and
\* neither query changes any category's state.
C6_QueriesComplementary ==
    /\ [](m_instance # NULL =>
            \A c \in DOMAIN States :
                /\ IsCategoryEnabled(States, c) \in {"true", "false"}
                /\ IsCategoryDisabled(States, c) \in {"true", "false"}
                /\ IsCategoryEnabled(States, c) = "true"
                      <=> IsCategoryDisabled(States, c) # "true")
    /\ [][last'.op \in {"IsCategoryEnabled", "IsCategoryDisabled"} =>
            UNCHANGED <<heap, m_instance, lastDisabled>>]_vars

C6_Witness ==
    /\ last.op = "IsCategoryEnabled" /\ last.res = "false"
    /\ HasState(last.cat, Disabled) /\ HasState(Default, Enabled)

\* C7: in a build with DEBUG_MODE, a Debug_Log call whose effective category
\* is Enabled appends exactly: the timestamp line iff the overload takes
\* bShowTime and it is true; ">>> "; the colour's escape code iff the overload
\* takes a colour; each argument's text in call order with nothing between;
\* the reset sequence iff a colour was written; a newline.
C7_ExactText ==
    (IsLog /\ DEBUG_MODE /\ HasState(EffectiveCategory, Enabled)) =>
        cout = (IF TakesTime /\ last.time THEN last.ts ELSE "")
               \o ">>> "
               \o (IF TakesColor THEN Color_To_Ansi(last.color) ELSE "")
               \o ArgsText(last.args)
               \o (IF TakesColor THEN "\\033[m" ELSE "")
               \o "\n"

C7_Witness ==
    /\ IsLog /\ DEBUG_MODE /\ last.variant = 6 /\ last.cat = Default /\ last.color = Red
    /\ last.time /\ HasState(Default, Enabled)
    /\ cout = "Thu Nov  5 03:08:00 2026\n>>> \\033[1;31mLoading next level691-420\\033[m\n"

\* C8: every Debug_Log call returns to its caller without aborting the
\* program, for every category value, also one with no entry in the map.
C8_LogNeverAborts == IsLog => mainPc = "run"

\* C9: Color_To_Ansi maps each of the 16 enumerated colours to its documented
\* sequence \033[1;<code>m and every other value up to 255 to White's.
C9_ColorTable ==
    last.op = "Color_To_Ansi" =>
        LET codes == <<31, 32, 34, 37, 30, 35, 36, 33, 90, 91, 92, 94, 97, 95, 96, 94>>
            code == IF last.color <= 15 THEN codes[last.color + 1] ELSE 37
        IN last.res = "\\033[1;" \o NatText(code) \o "m"

C9_Witness ==
    /\ last.op = "Color_To_Ansi" /\ last.color = 200 /\ last.res = "\\033[1;37m"

\* C10: without DEBUG_MODE every Debug_Log overload does nothing: no output,
\* no access to or construction of the LogManager, no change of the registry.
C10_ReleaseNoOp ==
    /\ [](IsLog /\ ~DEBUG_MODE =>
            cout = "" /\ ~last.get /\ ~last.ctor /\ mainPc = "run")
    /\ [][last'.op = "Debug_Log" /\ ~DEBUG_MODE =>
            UNCHANGED <<m_instance, m_lock, heap, lockCount, mainPc>>]_vars

C10_Witness ==
    /\ IsLog /\ ~DEBUG_MODE /\ last.variant = 6 /\ last.time /\ last.args # <<>>
    /\ HasState(last.cat, Enabled) /\ HasState(Error, Disabled) /\ cout = ""

\* a call that began when m_instance was already stored never holds m_lock
C11_LateCallsLockFree ==
    \A t \in Thread : late[t] => pc[t] \notin {"check2", "new", "unlock"}

\* while only one thread has ever called, the mutex is acquired at most once,
\* and exactly once as soon as a call has returned
C11_SingleThreadOnce ==
    (\E t \in Thread : \A u \in Thread \ {t} : pc[u] = "idle" /\ ret[u] = <<>>) =>
        /\ lockCount <= 1
        /\ \A t \in Thread : Len(ret[t]) >= 1 => lockCount = 1

\* C11: once the instance has been constructed (and DestroyInstance is not
\* called), no GetInstance/GetRef call that starts afterwards acquires m_lock;
\* in a single-threaded run of N >= 1 calls the mutex is acquired exactly
\* once, by the first call.
C11_LockOnlyOnFirstUse == C11_LateCallsLockFree /\ C11_SingleThreadOnce

====
